---- MODULE Spec2Model ----
(***************************************************************************)
(* cluster-shared-memory: the Manager (coordinator, master process) and    *)
(* the Worker proxies, with the IPC channels between them.                 *)
(*                                                                         *)
(* JavaScript values are modelled by strings that spell the literal:       *)
(* "undefined", "null", "0", "''", "1", "'up'", ...  Lock ids (uuid4) are    *)
(* the strings of LockIds.  Keys are strings, "" being the empty (falsy)   *)
(* key.                                                                    *)
(***************************************************************************)
EXTENDS Integers, Sequences, FiniteSets, TLC

-----------------------------------------------------------------------------
(* Bounds of the model *)

\* requests the worker proxies send on behalf of their callers, in total
MaxCalls == 3
\* calls the master process makes on the Manager API directly
MaxDirect == 3
\* mutex(k, f) calls of each process
MaxMutex == 2
\* requests a worker sends while the master uses the locks itself
MaxLockCalls == 2

Workers == {1, 2}
\* callers of the Manager API inside the master process
Clients == {"c1", "c2"}
Keys == {"x", ""}

Undefined == "undefined"
Falsy == {"undefined", "null", "false", "0", "''", "NaN"}
Truthy(v) == v \notin Falsy

\* uuid4() in the Manager: the n-th lock id minted
LockIds == <<"L1", "L2", "L3", "L4", "L5", "L6", "L7", "L8">>
uuid4(n) == LockIds[n]

\* no callback argument given (typeof cb !== 'function')
NoCb == [client |-> "none"]

\* the text releaseLock answers on a mismatch ("Failed. LockId:... does not match ...")
Failed == "Failed"

VARIABLES
    memory,              \* __sharedMemory__.memory
    locks,               \* __sharedMemory__.locks
    lockRequestQueues,   \* __sharedMemory__.lockRequestQueues
    listeners,           \* __sharedMemory__.listeners
    lru,                 \* __sharedLRUMemory__
    nextLockId,          \* number of lock ids minted so far, plus one
    crashed,             \* an exception left the Manager's message handler
    toMaster,            \* per worker: requests sent, not yet handled
    toWorker,            \* per worker: replies and notifications, not yet received
    status,              \* per worker: "connected", "disconnected" or "dead"
    getCallbacks,        \* Worker.__getCallbacks__
    getListenerCallbacks,\* Worker.__getListenerCallbacks__
    called,              \* per worker and uuid: times its pending callback was invoked
    nextUuid,            \* per worker: number of uuids drawn so far, plus one
    mutexes,             \* per worker: mutex calls started / finished
    held,                \* lock ids handed to a caller and not yet released by it
    direct,              \* number of direct calls of the master made so far
    lastReq,             \* the request the Manager handled in the last step
    lastSent,            \* the messages it passed to target.send in that step
    lastResult,          \* what the last direct call reported to its caller
    written,             \* per key: the values of the writes handled, in order
    heard,               \* per listener: the values its callback was invoked with
    arrived,             \* per key: who asked for the lock while it was held, in order
    granted,             \* per key: who was handed the lock on a release, in order
    refused              \* the (key, holder) pairs of the releases refused

vars == <<memory, locks, lockRequestQueues, listeners, lru, nextLockId, crashed,
          toMaster, toWorker, status, getCallbacks, getListenerCallbacks,
          called, nextUuid, mutexes, held, direct, lastReq, lastSent, lastResult,
          written, heard, arrived, granted, refused>>

-----------------------------------------------------------------------------
(* The Manager.  Its methods are operators on the record M of its state;   *)
(* each returns [st, kind, value]: the state after the call and what the   *)
(* call returned: a promise resolved with value ("resolved"), a promise    *)
(* nobody resolves ("pending"), or no promise at all ("none").             *)

Mgr == [memory |-> memory, locks |-> locks,
        lockRequestQueues |-> lockRequestQueues, listeners |-> listeners,
        lru |-> lru, nextLockId |-> nextLockId, toWorker |-> toWorker,
        held |-> held, sent |-> <<>>]

Resolved(M, v) == [st |-> M, kind |-> "resolved", value |-> v]
Pending(M) == [st |-> M, kind |-> "pending", value |-> Undefined]
NoPromise(M) == [st |-> M, kind |-> "none", value |-> Undefined]

\* target.send(msg, null, cb): delivered if the channel is open, else the
\* error goes to cb and is logged
send(M, target, msg) ==
    [M EXCEPT !.sent = Append(@, msg),
              !.toWorker[target] =
                  IF status[target] = "connected" THEN Append(@, msg) ELSE @]

removeListener(M, k, listener) ==
    LET ls == M.listeners[k]
        idx == {i \in 1..Len(ls) : ls[i] = listener}
    IN  IF idx # {}
        THEN LET index == CHOOSE i \in idx : \A j \in idx : i <= j
             IN  [M EXCEPT !.listeners[k] =
                      SubSeq(ls, 1, index - 1) \o SubSeq(ls, index + 1, Len(ls))]
        ELSE M

\* the closure handle() registers for a listen request: called with the value
listener(M, k, l, value) ==
    IF status[l.id] = "connected"
    THEN send(M, l.id, [isNotified |-> TRUE, id |-> l.id, uuid |-> l.uuid,
                        value |-> value])
    ELSE IF status[l.id] = "dead"
         THEN removeListener(M, k, l)
         ELSE M

\* listeners.map(cb => ...): visits indices 1..len of the array as it is when
\* each index is reached; an index the array no longer has is passed over
RECURSIVE mapListeners(_, _, _, _)
mapListeners(M, k, i, len) ==
    IF i > len
    THEN M
    ELSE IF i > Len(M.listeners[k])
         THEN mapListeners(M, k, i + 1, len)
         ELSE mapListeners(listener(M, k, M.listeners[k][i], M.memory[k]),
                           k, i + 1, len)

notifyListener(M, k) ==
    IF Len(M.listeners[k]) > 0
    THEN mapListeners(M, k, 1, Len(M.listeners[k]))
    ELSE M

listen(M, k, l) == [M EXCEPT !.listeners[k] = Append(@, l)]

\* callback(lockId) of a queued getLock request: the caller now has the lock id
grant(M, k, callback, lockId) ==
    [M EXCEPT !.held = @ \cup {[client |-> callback.client, key |-> k,
                                lockId |-> lockId]}]

\* handleLockRequest that does not look whether k is locked
handleLockRequest_Unguarded(M, k) ==
    IF Len(M.lockRequestQueues[k]) > 0
    THEN LET callback == Head(M.lockRequestQueues[k])
             lockId == uuid4(M.nextLockId)
         IN  grant([M EXCEPT !.lockRequestQueues[k] = Tail(@),
                             !.nextLockId = @ + 1,
                             !.locks[k] = lockId],
                   k, callback, lockId)
    ELSE M

handleLockRequest(M, k) ==
    IF ~Truthy(M.locks[k]) /\ Len(M.lockRequestQueues[k]) > 0
    THEN LET callback == Head(M.lockRequestQueues[k])
             lockId == uuid4(M.nextLockId)
         IN  grant([M EXCEPT !.lockRequestQueues[k] = Tail(@),
                             !.nextLockId = @ + 1,
                             !.locks[k] = lockId],
                   k, callback, lockId)
    ELSE M

\* With a callback: it is queued and handleLockRequest runs; the code then
\* goes on to the promise path.  The promise path reads the property
\* `pushresolve` of the queue, which queues nothing, runs handleLockRequest
\* and returns a promise whose resolve is never called.
getLock(M, k, cb) ==
    LET M1 == IF cb # NoCb
              THEN handleLockRequest(
                       [M EXCEPT !.lockRequestQueues[k] = Append(@, cb)], k)
              ELSE M
    IN  Pending(handleLockRequest(M1, k))

\* one of the two identical branches of releaseLock (callback, then promise);
\* a lock id that is released is no longer held by the caller it was given to
\* a release that does not compare the lock id with the holder's
releaseBranch_AnyLockId(M, k, lockId) ==
    [st |-> handleLockRequest(
                [M EXCEPT !.locks[k] = Undefined,
                          !.held = {h \in @ : ~(h.key = k /\ h.lockId = M.locks[k])}],
                k),
     value |-> "'OK'"]

\* a release that clears the holder and leaves the queue waiting
releaseBranch_NoHandover(M, k, lockId) ==
    IF lockId = M.locks[k]
    THEN [st |-> [M EXCEPT !.locks[k] = Undefined,
                           !.held = {h \in @ : ~(h.key = k /\ h.lockId = lockId)}],
          value |-> "'OK'"]
    ELSE [st |-> M, value |-> Failed]

releaseBranch(M, k, lockId) ==
    IF lockId = M.locks[k]
    THEN [st |-> handleLockRequest(
                     [M EXCEPT !.locks[k] = Undefined,
                               !.held = {h \in @ : ~(h.key = k /\ h.lockId = lockId)}],
                     k),
          value |-> "'OK'"]
    ELSE [st |-> M, value |-> Failed]

\* returns, besides the promise, what the callback was called with (cbValue)
releaseLock(M, k, lockId, cb) ==
    LET b1 == IF cb # NoCb THEN releaseBranch(M, k, lockId)
                           ELSE [st |-> M, value |-> Undefined]
        b2 == releaseBranch(b1.st, k, lockId)
    IN  [st |-> b2.st, kind |-> "resolved", value |-> b2.value,
         cbValue |-> b1.value]

\* one of the two identical branches of set
setBranch(M, k, v) == notifyListener([M EXCEPT !.memory[k] = v], k)

\* a set that is refused while the key is locked
set_WhenUnlocked(M, k, v, cb) ==
    IF Truthy(M.locks[k])
    THEN Resolved(M, Failed)
    ELSE IF k # ""
         THEN LET M1 == IF cb # NoCb THEN setBranch(M, k, v) ELSE M
              IN  Resolved(setBranch(M1, k, v), "'OK'")
         ELSE NoPromise(M)

set(M, k, v, cb) ==
    IF k # ""
    THEN LET M1 == IF cb # NoCb THEN setBranch(M, k, v) ELSE M
         IN  Resolved(setBranch(M1, k, v), "'OK'")
    ELSE NoPromise(M)

get(M, k, cb) == Resolved(M, M.memory[k])

\* a remove that notifies but leaves the entry in the store
removeBranch_KeepsEntry(M, k) == notifyListener(M, k)

removeBranch(M, k) == notifyListener([M EXCEPT !.memory[k] = Undefined], k)

remove(M, k, cb) ==
    LET M1 == IF cb # NoCb THEN removeBranch(M, k) ELSE M
    IN  Resolved(removeBranch(M1, k), "'OK'")

\* the cache, for entries within its capacity (max) and age (maxAge)
getLRU(M, k, cb) == Resolved(M, M.lru[k])

\* a setLRU that writes the primary store as well, as set does
setLRU_IntoStore(M, k, v, cb) ==
    IF k # ""
    THEN Resolved(setBranch([M EXCEPT !.lru[k] = v], k, v), "'OK'")
    ELSE NoPromise(M)

setLRU(M, k, v, cb) ==
    IF k # ""
    THEN Resolved([M EXCEPT !.lru[k] = v], "'OK'")
    ELSE NoPromise(M)

removeLRU(M, k, cb) == Resolved([M EXCEPT !.lru[k] = Undefined], "'OK'")

\* the methods a request may name and the Manager has
Operations == {"get", "set", "remove", "getLock", "releaseLock", "listen",
               "getLRU", "setLRU", "removeLRU"}

\* this[data.method](...args)
call(M, method, k, v) ==
    CASE method = "set" -> set(M, k, v, NoCb)
      [] method = "get" -> get(M, k, NoCb)
      [] method = "remove" -> remove(M, k, NoCb)
      [] method = "getLock" -> getLock(M, k, NoCb)
      [] method = "releaseLock" ->
             LET r == releaseLock(M, k, v, NoCb)
             IN  [st |-> r.st, kind |-> r.kind, value |-> r.value]
      [] method = "getLRU" -> getLRU(M, k, NoCb)
      [] method = "setLRU" -> setLRU(M, k, v, NoCb)
      [] method = "removeLRU" -> removeLRU(M, k, NoCb)

\* Manager.handle(data, target): [st, threw].  this[data.method] is looked up
\* by name: a private method such as handleLockRequest is called like any
\* other and its promise answered; a name the Manager does not have, or a
\* method that returns no promise, makes the call or its .then throw a
\* TypeError, which nothing catches.
handle(M, data, target) ==
    IF data.method = "listen"
    THEN [st |-> listen(M, data.key, [id |-> data.id, uuid |-> data.uuid]),
          threw |-> FALSE]
    ELSE IF data.method = "handleLockRequest"
    THEN [st |-> send(handleLockRequest(M, data.key), target,
                      [isNotified |-> FALSE, id |-> data.id,
                       uuid |-> data.uuid, value |-> Undefined]),
          threw |-> FALSE]
    ELSE IF data.method \notin Operations
    THEN [st |-> M, threw |-> TRUE]
    ELSE LET v == IF Truthy(data.value) THEN data.value ELSE Undefined
             r == call(M, data.method, data.key, v)
         IN  CASE r.kind = "none" -> [st |-> r.st, threw |-> TRUE]
               [] r.kind = "pending" -> [st |-> r.st, threw |-> FALSE]
               [] r.kind = "resolved" ->
                      [st |-> send(r.st, target,
                                   [isNotified |-> FALSE, id |-> data.id,
                                    uuid |-> data.uuid, value |-> r.value]),
                       threw |-> FALSE]

-----------------------------------------------------------------------------
(* The Worker proxy.  W is the record of one proxy's state: the requests   *)
(* it has sent (out), __getCallbacks__ (cbs), __getListenerCallbacks__     *)
(* (lcbs), the uuids drawn (next) and its mutex calls (mx).                *)

\* JSON over the IPC channel: NaN arrives as null, a missing value as undefined
Serialize(v) == IF v = "NaN" THEN "null" ELSE v

Wrk(w) == [out |-> toMaster[w], cbs |-> getCallbacks[w],
           lcbs |-> getListenerCallbacks[w], next |-> nextUuid[w],
           mx |-> mutexes[w], called |-> called[w]]

\* Worker.handle(method, k, v, cb)
Worker_handle(W, id, method, k, v, cb) ==
    LET uuid == W.next
        W1 == [W EXCEPT !.next = @ + 1,
                        !.out = Append(@, [id |-> id, method |-> method,
                                           uuid |-> uuid, key |-> k,
                                           value |-> Serialize(v)])]
    IN  IF method = "listen"
        THEN [W1 EXCEPT !.lcbs = (uuid :> cb) @@ @]
        ELSE [W1 EXCEPT !.cbs = (uuid :> cb) @@ @]

UserCb == [kind |-> "cb"]
ResolveCb == [kind |-> "resolve"]

\* Worker.set/get/remove/getLock/releaseLock/getLRU/setLRU/removeLRU: with a
\* callback the request is sent for it, and then once more for the promise
Worker_call(W, id, method, k, v, hasCb) ==
    LET arg == IF method \in {"set", "setLRU", "releaseLock"} THEN v ELSE "null"
        W1 == IF hasCb THEN Worker_handle(W, id, method, k, arg, UserCb) ELSE W
    IN  Worker_handle(W1, id, method, k, arg, ResolveCb)

\* Worker.listen(k, cb)
Worker_listen(W, id, k) == Worker_handle(W, id, "listen", k, "null", UserCb)

\* Worker.mutex(k, f), up to its first await: getLock(k) without a callback
Worker_mutex(W, id, k, f) ==
    Worker_handle([W EXCEPT !.mx.started = @ + 1,
                            !.mx.throwing = @ + (IF f = "throws" THEN 1 ELSE 0)],
                  id, "getLock", k, "null",
                  [kind |-> "mutex", step |-> "getLock", key |-> k, f |-> f,
                   lockId |-> Undefined])

\* requestTimes + 1 of the demo's increment
Numerals == <<"0", "1", "2", "3", "4", "5", "6", "7", "8">>
Plus1(v) ==
    IF \E i \in 1..(Len(Numerals) - 1) : Numerals[i] = v
    THEN Numerals[(CHOOSE i \in 1..(Len(Numerals) - 1) : Numerals[i] = v) + 1]
    ELSE IF v = "null" THEN "1" ELSE "NaN"

\* what a pending callback does when its reply arrives with value
\* (the rest of mutex after each await; f is the demo's increment or throws)
continue(W, id, cb, value) ==
    IF cb.kind # "mutex"
    THEN W
    ELSE CASE cb.step = "getLock" ->
                  IF cb.f = "throws"
                  THEN [W EXCEPT !.mx.failed = @ + 1]
                  ELSE Worker_handle(W, id, "get", cb.key, "null",
                           [cb EXCEPT !.step = "get", !.lockId = value])
           [] cb.step = "get" ->
                  Worker_handle(W, id, "set", cb.key, Plus1(value),
                                [cb EXCEPT !.step = "set"])
           [] cb.step = "set" ->
                  Worker_handle([W EXCEPT !.mx.releases = @ + 1],
                                id, "releaseLock", cb.key, cb.lockId,
                                [cb EXCEPT !.step = "releaseLock"])
           [] cb.step = "releaseLock" -> [W EXCEPT !.mx.done = @ + 1]

\* f \ {x}: the function f without the argument x
Without(f, x) == [y \in (DOMAIN f) \ {x} |-> f[y]]

\* cb(data.value): one more invocation of the callback pending under uuid
Invoke(W, uuid) ==
    [W EXCEPT !.called = IF uuid \in DOMAIN @
                         THEN [@ EXCEPT ![uuid] = @ + 1]
                         ELSE (uuid :> 1) @@ @]

\* a reply handler that calls the pending callback and keeps its entry
Worker_onReply_KeepsEntry(W, id, data) ==
    IF data.uuid \in DOMAIN W.cbs
    THEN continue(Invoke(W, data.uuid), id, W.cbs[data.uuid], data.value)
    ELSE W

\* process.on('message'): a reply calls and deletes its pending callback
Worker_onReply(W, id, data) ==
    IF data.uuid \in DOMAIN W.cbs
    THEN LET W1 == continue(Invoke(W, data.uuid), id, W.cbs[data.uuid],
                            data.value)
         IN  [W1 EXCEPT !.cbs = Without(@, data.uuid)]
    ELSE W

-----------------------------------------------------------------------------
(* The state after construction *)

\* the master process, as a caller of Manager.mutex
Master == 0

NoReq == [id |-> 0, method |-> "none", uuid |-> 0, key |-> "", value |-> Undefined]

Init ==
    /\ memory = [k \in Keys |-> Undefined]
    /\ locks = [k \in Keys |-> Undefined]
    /\ lockRequestQueues = [k \in Keys |-> <<>>]
    /\ listeners = [k \in Keys |-> <<>>]
    /\ lru = [k \in Keys |-> Undefined]
    /\ nextLockId = 1
    /\ crashed = FALSE
    /\ toMaster = [w \in Workers |-> <<>>]
    /\ toWorker = [w \in Workers |-> <<>>]
    /\ status = [w \in Workers |-> "connected"]
    /\ getCallbacks = [w \in Workers |-> <<>>]
    /\ getListenerCallbacks = [w \in Workers |-> <<>>]
    /\ called = [w \in Workers |-> <<>>]
    /\ nextUuid = [w \in Workers |-> 1]
    /\ mutexes = [w \in Workers \cup {Master} |->
                     [started |-> 0, throwing |-> 0, done |-> 0, failed |-> 0,
                      releases |-> 0]]
    /\ held = {}
    /\ direct = 0
    /\ lastReq = NoReq
    /\ lastSent = <<>>
    /\ lastResult = Undefined
    /\ written = [k \in Keys |-> <<>>]
    /\ heard = [w \in Workers |-> <<>>]
    /\ arrived = [k \in Keys |-> <<>>]
    /\ granted = [k \in Keys |-> <<>>]
    /\ refused = {}

-----------------------------------------------------------------------------
(* Steps of the worker processes *)

workerVars == <<toMaster, getCallbacks, getListenerCallbacks, called, nextUuid,
                mutexes>>
managerVars == <<memory, locks, lockRequestQueues, listeners, lru, nextLockId,
                 crashed, toWorker, held, lastReq, lastSent, written>>
lockHistory == <<arrived, granted, refused>>

\* the uuids the proxies have drawn so far: the requests sent
RECURSIVE Sum(_, _)
Sum(f, S) == IF S = {} THEN 0
             ELSE LET x == CHOOSE y \in S : TRUE IN f[x] + Sum(f, S \ {x})
Sent == Sum(nextUuid, Workers) - Cardinality(Workers)

SetWorker(w, W) ==
    /\ toMaster' = [toMaster EXCEPT ![w] = W.out]
    /\ getCallbacks' = [getCallbacks EXCEPT ![w] = W.cbs]
    /\ getListenerCallbacks' = [getListenerCallbacks EXCEPT ![w] = W.lcbs]
    /\ called' = [called EXCEPT ![w] = W.called]
    /\ nextUuid' = [nextUuid EXCEPT ![w] = W.next]
    /\ mutexes' = [mutexes EXCEPT ![w] = W.mx]

\* a worker calls set, get, remove, getLock, releaseLock, getLRU, setLRU or
\* removeLRU of its proxy
WorkerCall(w, method, k, v, hasCb) ==
    /\ status[w] = "connected"
    /\ Sent + (IF hasCb THEN 2 ELSE 1) <= MaxCalls
    /\ SetWorker(w, Worker_call(Wrk(w), w, method, k, v, hasCb))
    /\ UNCHANGED <<managerVars, status, direct, lastResult, heard, lockHistory>>

\* a worker calls listen(k, cb)
WorkerListen(w, k) ==
    /\ status[w] = "connected"
    /\ Sent < MaxCalls
    /\ SetWorker(w, Worker_listen(Wrk(w), w, k))
    /\ UNCHANGED <<managerVars, status, direct, lastResult, heard, lockHistory>>

\* a worker sends a request whose method is none of the operations
WorkerSendUnknown(w, method, k, v) ==
    /\ status[w] = "connected"
    /\ Sent < MaxCalls
    /\ method \notin Operations
    /\ SetWorker(w, Worker_handle(Wrk(w), w, method, k, v, UserCb))
    /\ UNCHANGED <<managerVars, status, direct, lastResult, heard, lockHistory>>

\* a worker calls mutex(k, f)
WorkerMutex(w, k, f) ==
    /\ status[w] = "connected"
    /\ mutexes[w].started < MaxMutex
    /\ SetWorker(w, Worker_mutex(Wrk(w), w, k, f))
    /\ UNCHANGED <<managerVars, status, direct, lastResult, heard, lockHistory>>

\* process.on('message', ...) of a worker
WorkerOnMessage(w) ==
    /\ status[w] = "connected"
    /\ toWorker[w] # <<>>
    /\ toWorker' = [toWorker EXCEPT ![w] = Tail(@)]
    /\ LET data == Head(toWorker[w])
       IN  IF data.isNotified
           THEN /\ heard' = IF data.uuid \in DOMAIN getListenerCallbacks[w]
                            THEN [heard EXCEPT ![w][data.uuid].got =
                                      Append(@, data.value)]
                            ELSE heard
                /\ UNCHANGED workerVars
           ELSE /\ SetWorker(w, Worker_onReply(Wrk(w), w, data))
                /\ UNCHANGED heard
    /\ UNCHANGED <<memory, locks, lockRequestQueues, listeners, lru, nextLockId,
                   crashed, held, lastReq, lastSent, written, status, direct,
                   lastResult, lockHistory>>

\* worker.disconnect(): the channel is closed, the process still runs
WorkerDisconnect(w) ==
    /\ status[w] = "connected"
    /\ status' = [status EXCEPT ![w] = "disconnected"]
    /\ toWorker' = [toWorker EXCEPT ![w] = <<>>]
    /\ UNCHANGED <<memory, locks, lockRequestQueues, listeners, lru, nextLockId,
                   crashed, held, lastReq, lastSent, written, workerVars,
                   direct, lastResult, heard, lockHistory>>

\* the worker process exits
WorkerExit(w) ==
    /\ status[w] # "dead"
    /\ status' = [status EXCEPT ![w] = "dead"]
    /\ toWorker' = [toWorker EXCEPT ![w] = <<>>]
    /\ UNCHANGED <<memory, locks, lockRequestQueues, listeners, lru, nextLockId,
                   crashed, held, lastReq, lastSent, written, workerVars,
                   direct, lastResult, heard, lockHistory>>

-----------------------------------------------------------------------------
(* Steps of the master process *)

SetManager(M) ==
    /\ memory' = M.memory
    /\ locks' = M.locks
    /\ lockRequestQueues' = M.lockRequestQueues
    /\ listeners' = M.listeners
    /\ lru' = M.lru
    /\ nextLockId' = M.nextLockId
    /\ toWorker' = M.toWorker
    /\ held' = M.held
    /\ lastSent' = M.sent

\* the write a handled request makes, as its sender stated it
Write(data) ==
    IF data.method = "set" /\ data.key # ""
    THEN [written EXCEPT ![data.key] = Append(@, data.value)]
    ELSE IF data.method = "remove"
         THEN [written EXCEPT ![data.key] = Append(@, Undefined)]
         ELSE written

\* the names of the processes that ask for locks
WorkerName == <<"w1", "w2">>

\* a getLock(k) call of `who` that finds k held
Arrive(isGetLock, k, who) ==
    IF isGetLock /\ Truthy(locks[k])
    THEN [arrived EXCEPT ![k] = Append(@, who)]
    ELSE arrived

\* a releaseLock(k, ...) call after which newHeld are the lock ids handed out
Handover(isRelease, k, newHeld) ==
    IF isRelease /\ \E h \in newHeld \ held : h.key = k
    THEN [granted EXCEPT ![k] =
              Append(@, (CHOOSE h \in newHeld \ held : h.key = k).client)]
    ELSE granted

\* a releaseLock(k, lockId) call that finds k held with another lock id
Refuse(isRelease, k, lockId) ==
    IF isRelease /\ Truthy(locks[k]) /\ lockId # locks[k]
    THEN refused \cup {[key |-> k, holder |-> locks[k]]}
    ELSE refused

\* worker.on('message', data => this.handle(data, worker)): requests of one
\* worker are handled in the order sent, each to completion
ManagerHandle(w) ==
    /\ ~crashed
    /\ toMaster[w] # <<>>
    /\ nextLockId <= Len(LockIds)
    /\ LET data == Head(toMaster[w])
           r == handle(Mgr, data, w)
       IN  /\ SetManager(r.st)
           /\ crashed' = r.threw
           /\ lastReq' = data
           /\ written' = Write(data)
           /\ heard' = IF data.method = "listen"
                       THEN [heard EXCEPT ![w] =
                                (data.uuid :> [key |-> data.key,
                                               from |-> Len(written[data.key]),
                                               got |-> <<>>]) @@ @]
                       ELSE heard
           /\ arrived' = Arrive(data.method = "getLock", data.key, WorkerName[w])
           /\ granted' = Handover(data.method = "releaseLock", data.key, r.st.held)
           /\ refused' = Refuse(data.method = "releaseLock", data.key, data.value)
    /\ toMaster' = [toMaster EXCEPT ![w] = Tail(@)]
    /\ UNCHANGED <<status, getCallbacks, getListenerCallbacks, called, nextUuid,
                   mutexes, direct, lastResult>>

\* the lock ids a caller in the master can pass to releaseLock: one it was
\* given, one that was released before, or none; a worker, which is never
\* given one, passes none or some other string
NotALockId == "L0"
LockIdSet == {uuid4(i) : i \in 1..Len(LockIds)} \cup {Undefined}
Released == {uuid4(i) : i \in 1..(nextLockId - 1)} \ {locks[k] : k \in Keys}
ReleaseArgs(c, k) ==
    {h.lockId : h \in {g \in held : g.client = c /\ g.key = k}}
        \cup Released \cup {Undefined}

\* code of the master calls Manager.getLock(k, cb) or Manager.getLock(k)
DirectGetLock(c, k, hasCb) ==
    /\ ~crashed
    /\ direct < MaxDirect
    /\ nextLockId <= Len(LockIds)
    /\ direct' = direct + 1
    /\ SetManager(getLock(Mgr, k, IF hasCb THEN [client |-> c] ELSE NoCb).st)
    /\ lastReq' = [NoReq EXCEPT !.method = "getLock", !.key = k]
    /\ lastResult' = Undefined
    /\ arrived' = Arrive(TRUE, k, c)
    /\ UNCHANGED <<crashed, written, toMaster, status, getCallbacks,
                   getListenerCallbacks, called, nextUuid, mutexes, heard, granted,
                   refused>>

\* code of the master calls Manager.releaseLock(k, lockId, cb) or awaits
\* Manager.releaseLock(k, lockId)
DirectReleaseLock(c, k, lockId, hasCb) ==
    /\ ~crashed
    /\ direct < MaxDirect
    /\ nextLockId <= Len(LockIds)
    /\ lockId \in ReleaseArgs(c, k)
    /\ direct' = direct + 1
    /\ LET r == releaseLock(Mgr, k, lockId, IF hasCb THEN [client |-> c] ELSE NoCb)
       IN  /\ SetManager(r.st)
           /\ lastResult' = IF hasCb THEN r.cbValue ELSE r.value
           /\ granted' = Handover(TRUE, k, r.st.held)
    /\ refused' = Refuse(TRUE, k, lockId)
    /\ lastReq' = [NoReq EXCEPT !.method = "releaseLock", !.key = k,
                                !.value = lockId]
    /\ UNCHANGED <<crashed, written, toMaster, status, getCallbacks,
                   getListenerCallbacks, called, nextUuid, mutexes, heard, arrived>>

\* code of the master calls Manager.set(k, v, cb) or awaits Manager.set(k, v)
DirectSet(k, v, hasCb) ==
    /\ ~crashed
    /\ direct < MaxDirect
    /\ direct' = direct + 1
    /\ LET r == set(Mgr, k, v, IF hasCb THEN [client |-> "c1"] ELSE NoCb)
       IN  /\ SetManager(r.st)
           /\ lastResult' = r.value
    /\ lastReq' = NoReq
    /\ written' = IF k # "" THEN [written EXCEPT ![k] = Append(@, v)] ELSE written
    /\ UNCHANGED <<crashed, toMaster, status, getCallbacks,
                   getListenerCallbacks, called, nextUuid, mutexes, heard, lockHistory>>

\* code of the master calls Manager.mutex(k, f): it awaits getLock(k)
DirectMutex(k) ==
    /\ ~crashed
    /\ mutexes[Master].started < MaxMutex
    /\ nextLockId <= Len(LockIds)
    /\ mutexes' = [mutexes EXCEPT ![Master].started = @ + 1]
    /\ SetManager(getLock(Mgr, k, NoCb).st)
    /\ lastReq' = [NoReq EXCEPT !.method = "getLock", !.key = k]
    /\ arrived' = Arrive(TRUE, k, "master")
    /\ UNCHANGED <<crashed, written, toMaster, status, getCallbacks,
                   getListenerCallbacks, called, nextUuid, direct, lastResult, heard,
                   granted, refused>>

-----------------------------------------------------------------------------------------------------------------------------------------------------
(* Specifications *)

Values == {"0", "1", "2"}
Call(method, k, v) == [method |-> method, key |-> k, value |-> v]

\* the primary store with its listeners, worker processes coming and going
StoreCalls ==
    {Call("set", "x", v) : v \in Values} \cup
    {Call("get", "x", "null"), Call("remove", "x", "null")}

NextStore ==
    \E w \in Workers :
        \/ \E c \in StoreCalls : WorkerCall(w, c.method, c.key, c.value, FALSE)
        \/ WorkerListen(w, "x")
        \/ ManagerHandle(w)
        \/ WorkerOnMessage(w)
        \/ WorkerDisconnect(w)
        \/ WorkerExit(w)

Spec == Init /\ [][NextStore]_vars

\* every kind of request through Manager.handle
DispatchCalls ==
    {Call("set", "x", "1"), Call("set", "", "1"),
     Call("setLRU", "x", "1"), Call("setLRU", "", "1"),
     Call("releaseLock", "x", "null"), Call("releaseLock", "x", NotALockId)} \cup
    {Call(m, "x", "null") : m \in {"get", "remove", "getLock", "getLRU", "removeLRU"}}

NextDispatch ==
    \E w \in Workers :
        \/ \E c \in DispatchCalls : WorkerCall(w, c.method, c.key, c.value, FALSE)
        \/ WorkerListen(w, "x")
        \/ \E m \in {"bogus", "handleLockRequest"} : WorkerSendUnknown(w, m, "x", "1")
        \/ ManagerHandle(w)
        \/ WorkerOnMessage(w)

SpecDispatch == Init /\ [][NextDispatch]_vars

\* writes, removes and reads of one key by both workers
NextRemove ==
    \E w \in Workers :
        \/ \E v \in Values : WorkerCall(w, "set", "x", v, FALSE)
        \/ \E m \in {"remove", "get"} : WorkerCall(w, m, "x", "null", FALSE)
        \/ ManagerHandle(w)
        \/ WorkerOnMessage(w)

SpecRemove == Init /\ [][NextRemove]_vars

\* the cache beside the store, its locks and a listener, used by one worker
CacheCalls ==
    {Call("set", "x", "1"), Call("setLRU", "x", "1"),
     Call("releaseLock", "x", "null")} \cup
    {Call(m, "x", "null") : m \in {"get", "remove", "getLock", "getLRU", "removeLRU"}}

NextCache ==
    \/ \E c \in CacheCalls : WorkerCall(1, c.method, c.key, c.value, FALSE)
    \/ WorkerListen(1, "x")
    \/ ManagerHandle(1)
    \/ WorkerOnMessage(1)

SpecCache == Init /\ [][NextCache]_vars

\* the worker proxy: calls with a callback or awaited, and listeners
ProxyCalls == {Call("set", "x", "1"), Call("get", "x", "null")}

NextProxy ==
    \E w \in Workers :
        \/ \E c \in ProxyCalls, hasCb \in BOOLEAN :
               WorkerCall(w, c.method, c.key, c.value, hasCb)
        \/ WorkerListen(w, "x")
        \/ ManagerHandle(w)
        \/ WorkerOnMessage(w)

SpecProxy == Init /\ [][NextProxy]_vars

\* a worker that asks for the lock of "x" and exits, beside one that lives
NextDeath ==
    \/ WorkerCall(1, "getLock", "x", "null", FALSE)
    \/ WorkerExit(1)
    \/ \E c \in {Call("getLock", "x", "null"), Call("releaseLock", "x", "null")} :
           WorkerCall(2, c.method, c.key, c.value, FALSE)
    \/ \E w \in Workers : ManagerHandle(w) \/ WorkerOnMessage(w)

SpecDeath == Init /\ [][NextDeath]_vars

\* the store used by a worker while a caller in the master locks the key;
\* what the worker does with the replies plays no part
AdvisoryCalls ==
    {Call("set", "x", "1"), Call("releaseLock", "x", NotALockId)} \cup
    {Call(m, "x", "null") : m \in {"get", "remove", "getLock"}}

NextAdvisory ==
    \/ DirectGetLock("c1", "x", TRUE)
    \/ \E lockId \in LockIdSet : DirectReleaseLock("c1", "x", lockId, TRUE)
    \/ \E c \in AdvisoryCalls : WorkerCall(1, c.method, c.key, c.value, FALSE)
    \/ WorkerListen(1, "x")
    \/ ManagerHandle(1)

SpecAdvisory == Init /\ [][NextAdvisory]_vars

\* the locks: callers in the master (with callbacks or promises) and workers
\* client c1 uses both keys, client c2 contends for "x"
KeysOf(c) == IF c = "c1" THEN Keys ELSE {"x"}

NextLock ==
    \/ \E c \in Clients, hasCb \in BOOLEAN :
           \E k \in KeysOf(c) : DirectGetLock(c, k, hasCb)
    \/ \E c \in Clients, hasCb \in BOOLEAN :
           \E k \in KeysOf(c) :
               \E lockId \in ReleaseArgs(c, k) : DirectReleaseLock(c, k, lockId, hasCb)
    \/ Sent < MaxLockCalls /\ WorkerCall(1, "getLock", "x", "null", FALSE)
    \/ Sent < MaxLockCalls /\ \E v \in {"null", NotALockId} :
                                  WorkerCall(1, "releaseLock", "x", v, FALSE)
    \/ ManagerHandle(1)
    \/ WorkerOnMessage(1)

SpecLock == Init /\ [][NextLock]_vars

\* the demo (test.js): the master sets the counter to 0 and then forks the
\* workers, which run mutex(counter, f) and read the counter
NextMutex ==
    \/ direct = 0 /\ DirectSet("x", "0", FALSE)
    \/ direct > 0 /\ DirectMutex("x")
    \/ direct > 0 /\ \E w \in Workers, f \in {"increment", "throws"} :
                         WorkerMutex(w, "x", f)
    \/ direct > 0 /\ \E w \in Workers : WorkerCall(w, "get", "x", "null", FALSE)
    \/ \E w \in Workers : ManagerHandle(w)
    \/ \E w \in Workers : WorkerOnMessage(w)

SpecMutex == Init /\ [][NextMutex]_vars

-----------------------------------------------------------------------------
(* Properties *)

\* the Manager handles the request at the head of worker w's channel
Handles(w) == toMaster[w] # <<>> /\ toMaster'[w] = Tail(toMaster[w])
\* the master calls the Manager API directly
DirectStep == direct' = direct + 1
\* the replies (not the notifications) sent in the last Manager step
Replies(sent) == SelectSeq(sent, LAMBDA m : ~m.isNotified)
IsPrefix(s, t) == Len(s) <= Len(t) /\ SubSeq(t, 1, Len(s)) = s
Quiescent == \A w \in Workers : toMaster[w] = <<>> /\ toWorker[w] = <<>>

\* C1 (mutual exclusion): for every key at most one lock id is outstanding
\* (handed to a caller and not yet released), and it is the recorded holder;
\* so a second requester has its lock id only after the first one's release.
C1_MutualExclusion ==
    \A k \in Keys :
        /\ Cardinality({h \in held : h.key = k}) <= 1
        /\ \A h \in held : h.key = k => locks[k] = h.lockId

\* two requests were pending together and the second received its lock id in
\* the step that handled the first holder's release
C1_Witness ==
    /\ lastReq.method = "releaseLock"
    /\ lastResult = "'OK'"
    /\ granted[lastReq.key] # <<>>
    /\ \E h \in held : h.key = lastReq.key /\ h.lockId # lastReq.value

\* C3 (immediate grant): a getLock(k) request of a worker that the Manager
\* handles while k is unlocked and its queue empty is granted in that step:
\* a fresh lock id becomes the holder of k and is sent back in a reply that
\* carries the request's uuid.
C3_ImmediateGrant ==
    [][\A w \in Workers :
          LET data == Head(toMaster[w])
          IN  (/\ Handles(w)
               /\ data.method = "getLock"
               /\ ~Truthy(locks[data.key])
               /\ lockRequestQueues[data.key] = <<>>)
              => /\ locks'[data.key] = uuid4(nextLockId)
                 /\ nextLockId' = nextLockId + 1
                 /\ lastSent' = <<[isNotified |-> FALSE, id |-> data.id,
                                   uuid |-> data.uuid,
                                   value |-> uuid4(nextLockId)]>>]_vars

\* C4 (FIFO fairness): the requesters that asked for k while it was held are
\* handed the lock in the order in which their requests reached the Manager,
\* none of them skipped.
C4_Fifo == \A k \in Keys : IsPrefix(granted[k], arrived[k])

\* C5 (lock conflict): a releaseLock(k, t) that finds k held with a lock id
\* other than t answers something else than 'OK' and leaves the locks, the
\* queues and the lock ids handed out as they are; a releaseLock(k, t) with
\* the holder's lock id answers 'OK' and ends that holder's lock, also after
\* such a conflict.
C5_LockConflict ==
    [][(/\ lastReq'.method = "releaseLock"
        /\ DirectStep \/ \E w \in Workers : Handles(w)
        /\ Truthy(locks[lastReq'.key]))
       => LET k == lastReq'.key
              result == IF DirectStep THEN lastResult'
                        ELSE IF Len(Replies(lastSent')) = 1
                             THEN Replies(lastSent')[1].value ELSE Undefined
          IN  IF lastReq'.value # locks[k]
              THEN /\ result \notin {"'OK'", Undefined}
                   /\ UNCHANGED <<locks, lockRequestQueues, held, nextLockId>>
              ELSE /\ result = "'OK'"
                   /\ locks'[k] # locks[k]
                   /\ \A h \in held' : ~(h.key = k /\ h.lockId = locks[k])]_vars

\* a release of k with the holder's lock id has just succeeded, after a
\* release with another lock id had been refused under the same holder
C5_Witness ==
    /\ lastReq.method = "releaseLock"
    /\ lastResult = "'OK'"
    /\ [key |-> lastReq.key, holder |-> lastReq.value] \in refused

\* C2 (counter scenario): once both workers have called mutex(counter,
\* increment) MaxMutex times each, nobody else writes the counter and
\* nothing is in flight any more, every mutex call has completed and the
\* counter is its initial value 0 plus 2 * MaxMutex.
C2_CounterScenario ==
    (/\ Quiescent
     /\ mutexes[Master].started = 0
     /\ \A w \in Workers : mutexes[w].started = MaxMutex /\ mutexes[w].throwing = 0)
    => /\ \A w \in Workers : mutexes[w].done = MaxMutex
       /\ memory["x"] = Numerals[2 * MaxMutex + 1]

\* C6 (mutex releases on failure): once nothing is in flight any more, a
\* worker that called mutex(k, f) with an f that throws has issued a
\* releaseLock for every one of its mutex calls, so none of them keeps k.
C6_ReleaseOnFailure ==
    \A w \in Workers :
        (Quiescent /\ mutexes[w].throwing > 0)
        => mutexes[w].releases = mutexes[w].started

\* C7 (last write wins): a worker that has sent set(k, v1), set(k, v2) and
\* get(k), nobody else writing k, is answered v2 for the get.
C7_LastWriteWins ==
    \A w \in Workers :
        (/\ lastReq.method = "get" /\ lastReq.id = w /\ lastReq.uuid = 3
         /\ Len(written[lastReq.key]) = 2
         /\ \A i \in 1..2 : written[lastReq.key][i] # Undefined)
        => Replies(lastSent) = <<[isNotified |-> FALSE, id |-> w, uuid |-> 3,
                                  value |-> written[lastReq.key][2]]>>

\* C8 (subscriber consistency): the values a connected worker's listener was
\* called with are a prefix of the values written to its key since the
\* Manager registered it, and all of them once no notification for it is in
\* flight.
C8_SubscriberConsistency ==
    \A w \in Workers :
        status[w] = "connected" =>
            \A u \in DOMAIN heard[w] :
                LET h == heard[w][u]
                    log == SubSeq(written[h.key], h.from + 1, Len(written[h.key]))
                    inFlight == \E i \in 1..Len(toWorker[w]) :
                                    /\ toWorker[w][i].isNotified
                                    /\ toWorker[w][i].uuid = u
                IN  /\ IsPrefix(h.got, log)
                    /\ ~inFlight => h.got = log

\* C9 (exactly one reply): the step that handles a get, set, remove,
\* releaseLock, getLRU, setLRU or removeLRU request sends exactly one reply,
\* with the request's uuid and worker id; a getLock request at most one; a
\* listen request none.
C9_ExactlyOneReply ==
    lastReq.id \in Workers =>
        LET r == Replies(lastSent)
        IN  /\ lastReq.method \in {"get", "set", "remove", "releaseLock",
                                   "getLRU", "setLRU", "removeLRU"}
               => /\ Len(r) = 1
                  /\ r[1].uuid = lastReq.uuid
                  /\ r[1].id = lastReq.id
            /\ lastReq.method = "getLock" => Len(r) <= 1
            /\ lastReq.method = "listen" => Len(r) = 0

\* C10 (unknown operation): the step that handles a request whose method is
\* none of the operations sends nothing, leaves the store, the locks, the
\* queues, the listeners and the cache as they are, and leaves the Manager
\* running.
C10_UnknownDropped ==
    [][\A w \in Workers :
          (Handles(w) /\ Head(toMaster[w]).method \notin Operations)
          => /\ UNCHANGED <<memory, locks, lockRequestQueues, listeners, lru,
                            toWorker>>
             /\ lastSent' = <<>>
             /\ ~crashed']_vars

\* the notifications among the messages sent in a Manager step
Notifications(sent) == SelectSeq(sent, LAMBDA m : m.isNotified)
\* the Manager handles a set or remove request of worker w that writes key k
Writes(w, k) ==
    /\ Handles(w)
    /\ Head(toMaster[w]).key = k
    /\ \/ Head(toMaster[w]).method = "remove"
       \/ Head(toMaster[w]).method = "set" /\ k # ""

\* C11 (delivery to live subscribers): the step that handles a set or remove
\* of k sends every listener of k whose worker is connected exactly one
\* notification, carrying the value k now has, also when listeners of dead
\* workers are pruned in that step.
C11_LiveSubscribersNotified ==
    [][\A w \in Workers, k \in Keys :
          Writes(w, k) =>
              \A i \in 1..Len(listeners[k]) :
                  LET l == listeners[k][i]
                  IN  status[l.id] = "connected" =>
                          Len(SelectSeq(Notifications(lastSent'),
                                        LAMBDA m : m.id = l.id /\ m.uuid = l.uuid)) = 1
                          /\ \A j \in 1..Len(lastSent') :
                                 lastSent'[j].isNotified =>
                                     lastSent'[j].value = memory'[k]]_vars

\* C13 (read after remove): a get(k) handled when the last write of k was a
\* remove is answered undefined, whatever k held before.
C13_ReadAfterRemove ==
    (/\ lastReq.method = "get"
     /\ lastReq.id \in Workers
     /\ written[lastReq.key] # <<>>
     /\ written[lastReq.key][Len(written[lastReq.key])] = Undefined)
    => Replies(lastSent) = <<[isNotified |-> FALSE, id |-> lastReq.id,
                              uuid |-> lastReq.uuid, value |-> Undefined]>>

\* k held a value, was removed, and the get after the remove was answered
C13_Witness ==
    /\ lastReq.method = "get"
    /\ Len(written[lastReq.key]) = 2
    /\ Truthy(written[lastReq.key][1])
    /\ written[lastReq.key][2] = Undefined
    /\ Len(Replies(lastSent)) = 1
    /\ Replies(lastSent)[1].value = Undefined

\* C15 (dead subscriptions pruned): after the step that handles a set or
\* remove of k, no listener of a worker that was dead when the step began is
\* left in the listeners of k.
C15_DeadPruned ==
    [][\A w \in Workers, k \in Keys :
          Writes(w, k) =>
              \A i \in 1..Len(listeners'[k]) :
                  status[listeners'[k][i].id] # "dead"]_vars

\* C14 (hand-over on release): a releaseLock(k, t) with the holder's lock id
\* t, made while requests are queued for k, in that one step ends the
\* holder's lock, takes the first request off the queue and gives its caller
\* a lock id minted in this step, which no earlier grant used; the released
\* lock id t is not the holder any more, so it cannot release the new lock.
C14_HandOver ==
    [][(/\ lastReq'.method = "releaseLock"
        /\ DirectStep \/ \E w \in Workers : Handles(w)
        /\ Truthy(locks[lastReq'.key])
        /\ lastReq'.value = locks[lastReq'.key]
        /\ lockRequestQueues[lastReq'.key] # <<>>)
       => LET k == lastReq'.key
              next == Head(lockRequestQueues[k])
          IN  /\ lockRequestQueues'[k] = Tail(lockRequestQueues[k])
              /\ nextLockId' = nextLockId + 1
              /\ locks'[k] = uuid4(nextLockId)
              /\ locks'[k] \notin {uuid4(i) : i \in 1..(nextLockId - 1)}
              /\ locks'[k] # lastReq'.value
              /\ {h \in held' : h.key = k} =
                     {[client |-> next.client, key |-> k, lockId |-> locks'[k]]}
              /\ granted'[k] = Append(granted[k], next.client)]_vars

\* the first lock id of a key has just been released while a request was
\* queued: the queued caller holds the second lock id, the first is spent
C14_Witness ==
    /\ lastReq.method = "releaseLock"
    /\ lastReq.value = uuid4(1)
    /\ lastReq.value \in Released
    /\ Len(granted[lastReq.key]) = 1
    /\ locks[lastReq.key] = uuid4(2)
    /\ \E h \in held : h.key = lastReq.key /\ h.lockId = uuid4(2)

LruMethods == {"getLRU", "setLRU", "removeLRU"}

\* C18 (the cache is a namespace of its own): a getLRU, setLRU or removeLRU
\* request leaves the primary store, the locks, the lock request queues and
\* the listeners as they are and sends no notification; a get, set, remove,
\* getLock, releaseLock or listen request leaves the cache as it is.
C18_CacheDisjoint ==
    [][\A w \in Workers :
          Handles(w) =>
              LET data == Head(toMaster[w])
              IN  /\ data.method \in LruMethods =>
                        /\ UNCHANGED <<memory, locks, lockRequestQueues,
                                       listeners, held, written>>
                        /\ Notifications(lastSent') = <<>>
                  /\ data.method \in Operations \ LruMethods =>
                        UNCHANGED lru]_vars

\* a value was cached under a key that has a listener and no entry in the
\* store, and a remove of that key has been handled since: the cached value
\* is still there
C18_Witness ==
    /\ lru["x"] = "1"
    /\ memory["x"] = Undefined
    /\ written["x"] = <<Undefined>>
    /\ listeners["x"] # <<>>
    /\ lastReq.method = "remove"
    /\ lastReq.key = "x"

\* C19 (release of an unlocked key): a releaseLock(k, t) request handled
\* while k has no holder is not answered 'OK', whatever t is, a missing or
\* empty one included.
C19_ReleaseUnlocked ==
    [][\A w \in Workers :
          LET data == Head(toMaster[w])
          IN  (/\ Handles(w)
               /\ data.method = "releaseLock"
               /\ ~Truthy(locks[data.key]))
              => \A i \in 1..Len(lastSent') :
                     lastSent'[i].value # "'OK'"]_vars

\* worker w takes the next message of the Manager off its channel
Receives(w) ==
    /\ toWorker[w] # <<>>
    /\ toWorker'[w] = Tail(toWorker[w])
    /\ status[w] = "connected"
    /\ status'[w] = "connected"
\* the uuids under which worker w has a callback, pending or listening
Entries(w) == Cardinality(DOMAIN getCallbacks[w]) +
              Cardinality(DOMAIN getListenerCallbacks[w])

\* C16 (correlation in the worker proxy): a reply with uuid u invokes the
\* callback pending under u, for the first and only time, and removes that
\* entry and no other, leaving the listener callbacks alone; a notification
\* with uuid u invokes the listener callback under u once with the value
\* sent and removes nothing, so the listener hears every notification.
C16_Correlation ==
    [][\A w \in Workers :
          Receives(w) =>
              LET data == Head(toWorker[w])
                  u == data.uuid
              IN  IF data.isNotified
                  THEN /\ u \in DOMAIN getListenerCallbacks[w]
                       /\ heard'[w][u].got = Append(heard[w][u].got, data.value)
                       /\ \A v \in (DOMAIN heard[w]) \ {u} :
                              heard'[w][v] = heard[w][v]
                       /\ UNCHANGED <<getListenerCallbacks, getCallbacks, called>>
                  ELSE /\ u \in DOMAIN getCallbacks[w]
                       /\ u \notin DOMAIN called[w]
                       /\ called'[w] = (u :> 1) @@ called[w]
                       /\ getCallbacks'[w] = Without(getCallbacks[w], u)
                       /\ UNCHANGED <<getListenerCallbacks, heard>>]_vars

\* a worker with a pending request and a listener has received two
\* notifications under the listener's uuid and a reply under another
C16_Witness ==
    \E w \in Workers :
        \E u \in DOMAIN getListenerCallbacks[w] :
            /\ u \in DOMAIN heard[w]
            /\ Len(heard[w][u].got) = 2
            /\ called[w] # <<>>
            /\ getCallbacks[w] # <<>>

\* C17 (one request per call): a call of a proxy operation sends one request
\* with a fresh uuid and records one pending entry, with a callback or
\* without.
C17_OneRequestPerCall ==
    [][\A w \in Workers :
          Len(toMaster'[w]) > Len(toMaster[w]) =>
              /\ Len(toMaster'[w]) = Len(toMaster[w]) + 1
              /\ nextUuid'[w] = nextUuid[w] + 1
              /\ Entries(w)' = Entries(w) + 1]_vars

\* C12 (a death does not stop the others): once worker 1, which had asked
\* for the lock of "x", has exited, no request or reply is in flight, and
\* "x" has neither a holder nor a queued request, the living worker has no
\* getLock request left unanswered.
C12_ServiceAfterDeath ==
    (/\ status[1] = "dead"
     /\ nextUuid[1] > 1
     /\ Quiescent
     /\ ~Truthy(locks["x"])
     /\ lockRequestQueues["x"] = <<>>)
    => getCallbacks[2] = <<>>

StoreMethods == {"get", "set", "remove"}
LockMethods == {"getLock", "releaseLock"}
\* the Manager as it would be with no key locked and nobody waiting
Unlocked == [Mgr EXCEPT !.locks = [k \in Keys |-> Undefined],
                        !.lockRequestQueues = [k \in Keys |-> <<>>],
                        !.held = {}]

\* C20 (locks are advisory): a get, set or remove of k is handled and
\* answered in its step with the effect and the reply it has when nothing
\* is locked, whether k is locked or not and by whomever, and leaves the
\* locks and the queues as they are; a getLock or releaseLock leaves the
\* store and its listeners as they are and sends no notification.
C20_Advisory ==
    [][/\ \A w \in Workers :
            Handles(w) =>
                LET data == Head(toMaster[w])
                    free == handle(Unlocked, data, w).st
                IN  /\ (data.method \in StoreMethods /\ data.key # "") =>
                          /\ UNCHANGED <<locks, lockRequestQueues, held, nextLockId>>
                          /\ memory' = free.memory
                          /\ listeners' = free.listeners
                          /\ lastSent' = free.sent
                          /\ toWorker' = free.toWorker
                          /\ Len(Replies(lastSent')) = 1
                          /\ Replies(lastSent')[1].uuid = data.uuid
                          /\ ~crashed'
                    /\ data.method \in LockMethods =>
                          /\ UNCHANGED <<memory, listeners, written>>
                          /\ Notifications(lastSent') = <<>>
       /\ (DirectStep /\ lastReq'.method \in LockMethods) =>
              /\ UNCHANGED <<memory, listeners, written>>
              /\ lastSent' = <<>>]_vars

\* while the master's caller holds the lock of "x" and another request is
\* queued for it, a worker's set of "x" has been handled and answered 'OK'
C20_Witness ==
    /\ \E h \in held : h.key = "x" /\ h.lockId = locks["x"] /\ h.client = "c1"
    /\ lockRequestQueues["x"] # <<>>
    /\ lastReq.method = "set"
    /\ lastReq.id = 1
    /\ memory["x"] = "1"
    /\ Len(Replies(lastSent)) = 1
    /\ Replies(lastSent)[1].value = "'OK'"

====
